---- MODULE Spec2Model ----
(***************************************************************************)
(* Model of generate_theme.py, the Zed theme generator of the Fedaykin     *)
(* themes repository: the relaxed-JSON preprocessor, the blur variant      *)
(* deriver, the theme collection store and the two orchestration flows.    *)
(*                                                                         *)
(* Text is a sequence of one-character strings.  A JSON value is a record  *)
(* [t, v]: t is "str", "num" or "null" and v the characters of the value.  *)
(* A theme name is a sequence of string pieces, so that the f-string       *)
(* "<name> - blurred" is the concatenation name \o <<" - blurred">>.       *)
(***************************************************************************)
EXTENDS Integers, Sequences, FiniteSets, TLC

VARIABLES
    fileExists,     \* themes/fedaykin-themes.json exists on disk
    fileThemes,     \* the "themes" list persisted in that file
    pc,             \* position of the running command: "idle" or "regen_loop"
    cmd,            \* the command last started: "none", "generate", "remove", "regen"
    arg,            \* its input: the palette file, the theme name or the directory scan
    palette_files,  \* regenerate_all_themes: sorted(palette_files)
    idx,            \* regenerate_all_themes: position of the for loop in palette_files
    themes_data,    \* regenerate_all_themes: themes_data["themes"] being built
    errlog,         \* file names printed by "Error processing <file>" in this run
    writes,         \* number of save_themes calls made by the command last started
    exitCode,       \* process exit status of the command last finished
    snippet,        \* the command printed the first 500 characters of the bad text
    reported,       \* remove_theme's message: "removed", "notfound" or "none"
    fileBefore,     \* the persisted collection when the command last started
    args,           \* the function under test and its arguments
    ret             \* the values its successive calls returned

storeVars == <<fileExists, fileThemes, pc, cmd, arg, palette_files, idx,
               themes_data, errlog, writes, exitCode, snippet, reported,
               fileBefore>>
callVars == <<args, ret>>
vars == <<fileExists, fileThemes, pc, cmd, arg, palette_files, idx,
          themes_data, errlog, writes, exitCode, snippet, reported,
          fileBefore, args, ret>>

-----------------------------------------------------------------------------
(* Bounds of the model *)

MaxThemes == 3
MaxLineLen == 5
MaxTextLen == 4
MaxColorLen == 9

SeqUpTo(n, S) == UNION {[1..k -> S] : k \in 0..n}

-----------------------------------------------------------------------------
(* JSON values *)

Str(s) == [t |-> "str", v |-> s]
Num(s) == [t |-> "num", v |-> s]
None == [t |-> "null", v |-> <<>>]

-----------------------------------------------------------------------------
(* BLUR_ALPHA and BLUR_KEYS *)

BLUR_ALPHA ==
    ("transparent" :> <<"0", "0">>) @@
    ("subtle" :> <<"1", "A">>) @@
    ("tint" :> <<"3", "3">>) @@
    ("visible" :> <<"6", "0">>) @@
    ("solid" :> <<"A", "0">>) @@
    ("opaque" :> <<"D", "7">>)

BLUR_KEYS ==
    ("background" :> "opaque") @@
    ("status_bar.background" :> "opaque") @@
    ("title_bar.background" :> "opaque") @@
    ("surface.background" :> "opaque") @@
    ("editor.background" :> "transparent") @@
    ("editor.gutter.background" :> "transparent") @@
    ("editor.active_line.background" :> "subtle") @@
    ("terminal.background" :> "transparent") @@
    ("panel.background" :> "transparent") @@
    ("panel.overlay_background" :> "transparent") @@
    ("tab_bar.background" :> "transparent") @@
    ("tab.inactive_background" :> "transparent") @@
    ("tab.active_background" :> "solid") @@
    ("toolbar.background" :> "transparent") @@
    ("element.active" :> "transparent") @@
    ("element.selected" :> "visible") @@
    ("border" :> "subtle") @@
    ("border.variant" :> "transparent") @@
    ("border.transparent" :> "transparent") @@
    ("panel.focused_border" :> "transparent") @@
    ("pane.focused_border" :> "subtle") @@
    ("pane_group.border" :> "subtle") @@
    ("editor.highlighted_line.background" :> "subtle") @@
    ("editor.line_number" :> "solid") @@
    ("editor.active_line_number" :> "solid") @@
    ("editor.invisible" :> "visible") @@
    ("editor.wrap_guide" :> "subtle") @@
    ("editor.active_wrap_guide" :> "tint") @@
    ("editor.indent_guide" :> "solid") @@
    ("editor.indent_guide_active" :> "solid") @@
    ("editor.document_highlight.bracket_background" :> "subtle") @@
    ("editor.document_highlight.read_background" :> "tint") @@
    ("editor.document_highlight.write_background" :> "tint") @@
    ("editor.debugger_active_line.background" :> "subtle") @@
    ("ghost_element.background" :> "visible") @@
    ("ghost_element.hover" :> "solid") @@
    ("ghost_element.active" :> "tint") @@
    ("ghost_element.selected" :> "visible") @@
    ("scrollbar.track.background" :> "transparent") @@
    ("scrollbar.track.border" :> "transparent") @@
    ("scrollbar.thumb.background" :> "solid") @@
    ("scrollbar.thumb.hover_background" :> "solid") @@
    ("scrollbar.thumb.active_background" :> "solid") @@
    ("minimap.thumb.background" :> "tint") @@
    ("minimap.thumb.hover_background" :> "visible") @@
    ("minimap.thumb.active_background" :> "solid") @@
    ("search.match_background" :> "tint") @@
    ("drop_target.background" :> "solid") @@
    ("conflict.background" :> "tint") @@
    ("created.background" :> "tint") @@
    ("deleted.background" :> "tint") @@
    ("modified.background" :> "tint") @@
    ("renamed.background" :> "tint") @@
    ("ignored.background" :> "tint") @@
    ("unreachable.background" :> "subtle") @@
    ("hint.background" :> "opaque")

-----------------------------------------------------------------------------
(* add_alpha_to_color *)

\* color[:n]
Prefix(s, n) == SubSeq(s, 1, IF Len(s) < n THEN Len(s) ELSE n)

\* a variant that appends the suffix to the whole value, keeping an old alpha
add_alpha_keep_old(color, alpha_level) ==
    IF color.t # "str" \/ color.v = <<>> \/ color.v[1] # "#"
    THEN color
    ELSE Str(color.v \o
             (IF alpha_level \in DOMAIN BLUR_ALPHA
              THEN BLUR_ALPHA[alpha_level] ELSE <<"F", "F">>))

add_alpha_to_color(color, alpha_level) ==
    IF color.t # "str" \/ color.v = <<>> \/ color.v[1] # "#"
    THEN color
    ELSE LET base_color == IF Len(color.v) >= 7 THEN Prefix(color.v, 7)
                           ELSE color.v
             alpha_suffix == IF alpha_level \in DOMAIN BLUR_ALPHA
                             THEN BLUR_ALPHA[alpha_level]
                             ELSE <<"F", "F">>
         IN Str(base_color \o alpha_suffix)

-----------------------------------------------------------------------------
(* create_blurred_variant, over a heap of style dictionaries.  A theme     *)
(* object is [name, appearance, style] with style the address of its style *)
(* dictionary in the heap, so that a copy can share it or not.             *)

BLURRED == <<"b", "l", "u", "r", "r", "e", "d">>
BlurredSuffix == <<" - blurred">>

\* d[key] = value on the dictionary at address a
DictSet(heap, a, key, value) ==
    [heap EXCEPT ![a] = [k \in (DOMAIN heap[a]) \cup {key} |->
                            IF k = key THEN value ELSE heap[a][k]]]

\* copy.copy: a new top-level dict sharing the nested style dictionary
shallowcopy(heap, theme) == [heap |-> heap, obj |-> theme]

\* copy.deepcopy: the style dictionary is duplicated at a fresh address
deepcopy(heap, theme) ==
    [heap |-> Append(heap, heap[theme.style]),
     obj |-> [theme EXCEPT !.style = Len(heap) + 1]]

\* "if key in blurred['style']": the keys of BLUR_KEYS the loop body runs for
blur_keys_in(style) == {key \in DOMAIN BLUR_KEYS : key \in DOMAIN style}

\* the for loop over BLUR_KEYS.items(), restricted to the keys whose body runs
RECURSIVE blur_loop(_, _, _)
blur_loop(heap, a, keys) ==
    IF keys = {} THEN heap
    ELSE LET key == CHOOSE k \in keys : TRUE
             alpha_level == BLUR_KEYS[key]
             original == heap[a][key]
         IN blur_loop(DictSet(heap, a, key, add_alpha_to_color(original, alpha_level)),
                      a, keys \ {key})

create_blurred_variant(heap, theme) ==
    LET c == deepcopy(heap, theme)
        blurred == [c.obj EXCEPT !.name = theme.name \o BlurredSuffix]
        h1 == DictSet(c.heap, blurred.style, "background.appearance", Str(BLURRED))
    IN [heap |-> blur_loop(h1, blurred.style, blur_keys_in(h1[blurred.style])),
        blurred |-> blurred]

\* the JSON value of a theme object
ThemeValue(heap, theme) ==
    [name |-> theme.name, appearance |-> theme.appearance,
     style |-> heap[theme.style]]

\* create_blurred_variant applied to a freshly parsed theme value
BlurredValue(tv) ==
    LET r == create_blurred_variant(<<tv.style>>,
                 [name |-> tv.name, appearance |-> tv.appearance, style |-> 1])
    IN ThemeValue(r.heap, r.blurred)

-----------------------------------------------------------------------------
(* Palette files and the rendering of a palette into an opaque theme *)

COLOR1 == <<"#", "1", "1", "2", "2", "3", "3">>
COLOR2 == <<"#", "4", "4", "5", "5", "6", "6", "7", "7">>

PaletteNames == {<<"A">>, <<"A", " - blurred">>}
PaletteColors == {COLOR1}

\* The stage of the pipeline at which a palette file raises:
\*   "load"   load_palette raises (unreadable file, text that is not JSON)
\*   "render" the palette lacks "name" or "colors" (KeyError)
\*   "parse"  the rendered template is not JSON (json.JSONDecodeError)
\*   "blur"   the parsed theme lacks "name" or "style" (KeyError)
Faults == {"load", "render", "parse", "blur"}

GoodPalettes == [fault : {"none"}, name : PaletteNames, bg : PaletteColors]
BadPalettes == [fault : Faults, name : {<<>>}, bg : {<<>>}]
Palettes == GoodPalettes \cup BadPalettes

TEMPLATE_FILE == "palette-template.json"
\* the file names of color_palettes/*.json, in sorted order
FileUniverse == <<"a.json", "b.json", TEMPLATE_FILE>>
FileNames == {FileUniverse[i] : i \in DOMAIN FileUniverse}
Rank(f) == CHOOSE i \in DOMAIN FileUniverse : FileUniverse[i] = f

\* a directory: the files present, each with its content
TemplatePalette == [fault |-> "none", name |-> <<"Theme Name">>, bg |-> COLOR1]
Directories ==
    UNION {{d \in [D -> Palettes \cup {TemplatePalette}] :
               \A f \in D : (f = TEMPLATE_FILE) <=> (d[f] = TemplatePalette)} :
           D \in SUBSET FileNames}

\* load_template, replace_colors and parse_theme_json on a palette that
\* raises nowhere: the template's name, appearance and style placeholders
\* filled in from the palette
RenderTheme(palette) ==
    [name |-> palette.name,
     appearance |-> "dark",
     style |-> ("background.appearance" :> Str(<<"o", "p", "a", "q", "u", "e">>)) @@
               ("editor.background" :> Str(palette.bg))]

-----------------------------------------------------------------------------
(* The theme collection store *)

\* load_existing_themes: the file's list, or the initial structure
load_existing_themes == IF fileExists THEN fileThemes ELSE <<>>

\* a variant that replaces every entry of that name
add_or_update_all(themes, new_theme) ==
    IF \E i \in DOMAIN themes : themes[i].name = new_theme.name
    THEN [i \in DOMAIN themes |->
             IF themes[i].name = new_theme.name THEN new_theme ELSE themes[i]]
    ELSE Append(themes, new_theme)

\* the for loop of add_or_update_theme from position i on
RECURSIVE upsert_from(_, _, _)
upsert_from(themes, new_theme, i) ==
    IF i > Len(themes) THEN Append(themes, new_theme)
    ELSE IF themes[i].name = new_theme.name
         THEN [themes EXCEPT ![i] = new_theme]
         ELSE upsert_from(themes, new_theme, i + 1)

add_or_update_theme(themes, new_theme) == upsert_from(themes, new_theme, 1)

\* a variant that drops only the first entry of that name
RECURSIVE remove_first(_, _)
remove_first(themes, theme_name) ==
    IF themes = <<>> THEN <<>>
    ELSE IF Head(themes).name = theme_name THEN Tail(themes)
         ELSE <<Head(themes)>> \o remove_first(Tail(themes), theme_name)

\* the list comprehension of remove_theme
remove_filter(themes, theme_name) ==
    LET keep(t) == t.name # theme_name IN SelectSeq(themes, keep)

\* remove_theme saves only when the list got shorter
remove_saves(before, after) == Len(after) < Len(before)

\* sorted(palette_files)
RECURSIVE sorted(_)
sorted(S) ==
    IF S = {} THEN <<>>
    ELSE LET m == CHOOSE f \in S : \A g \in S : Rank(f) <= Rank(g)
         IN <<m>> \o sorted(S \ {m})

-----------------------------------------------------------------------------
(* Orchestration *)

\* the body of the try block of regenerate_all_themes with the appends
\* done as soon as each theme exists
process_palette_early_append(themes, log, fname, palette) ==
    IF palette.fault \in {"load", "render", "parse"}
    THEN [themes |-> themes, log |-> Append(log, fname)]
    ELSE IF palette.fault = "blur"
         THEN [themes |-> Append(themes, RenderTheme(palette)),
               log |-> Append(log, fname)]
         ELSE [themes |-> themes \o <<RenderTheme(palette),
                                      BlurredValue(RenderTheme(palette))>>,
               log |-> log]

\* the body of the for loop of regenerate_all_themes: load_palette,
\* replace_colors, parse_theme_json, create_blurred_variant, the two appends,
\* and the except clause that prints the file name and continues
process_palette(themes, log, fname, palette) ==
    IF palette.fault = "load" THEN [themes |-> themes, log |-> Append(log, fname)]
    ELSE IF palette.fault = "render"
         THEN [themes |-> themes, log |-> Append(log, fname)]
    ELSE IF palette.fault = "parse"
         THEN [themes |-> themes, log |-> Append(log, fname)]
    ELSE LET opaque_theme == RenderTheme(palette) IN
         IF palette.fault = "blur"
         THEN [themes |-> themes, log |-> Append(log, fname)]
         ELSE LET blurred_theme == BlurredValue(opaque_theme)
              IN [themes |-> Append(Append(themes, opaque_theme), blurred_theme),
                  log |-> log]

\* a variant that starts from the file's list
regen_initial_merge(existing) == existing

\* "Create fresh themes structure": the list regenerate_all_themes starts from
regen_initial(existing) == <<>>

\* "if not palette_files: ... return"
regen_returns_early(found) == found = {}

\* What generate_theme does with a palette, up to the save:
\*   exit     the exit status
\*   snippet  theme_str[:500] was printed
\*   save     save_themes was reached, with the list themes
generate_outcome(palette, existing) ==
    IF palette.fault = "load" \/ palette.fault = "render"
    THEN [exit |-> 1, snippet |-> FALSE, save |-> FALSE, themes |-> existing]
    ELSE IF palette.fault = "parse"
    THEN [exit |-> 1, snippet |-> TRUE, save |-> FALSE, themes |-> existing]
    ELSE IF palette.fault = "blur"
    THEN [exit |-> 1, snippet |-> FALSE, save |-> FALSE, themes |-> existing]
    ELSE LET opaque_theme == RenderTheme(palette)
             blurred_theme == BlurredValue(opaque_theme)
         IN [exit |-> 0, snippet |-> FALSE, save |-> TRUE,
             themes |-> add_or_update_theme(
                            add_or_update_theme(existing, opaque_theme),
                            blurred_theme)]

FileState == [exists |-> fileExists, themes |-> fileThemes]

StoreInit ==
    /\ fileExists = FALSE
    /\ fileThemes = <<>>
    /\ pc = "idle"
    /\ cmd = "none"
    /\ arg = [exists |-> FALSE]
    /\ palette_files = <<>>
    /\ idx = 1
    /\ themes_data = <<>>
    /\ errlog = <<>>
    /\ writes = 0
    /\ exitCode = 0
    /\ snippet = FALSE
    /\ reported = "none"
    /\ fileBefore = [exists |-> FALSE, themes |-> <<>>]

CallIdle ==
    /\ args = [fn |-> "none"]
    /\ ret = <<>>

Init == StoreInit /\ CallIdle

\* main with a palette path that does not exist
GenerateMissing ==
    /\ pc = "idle"
    /\ cmd' = "generate"
    /\ arg' = [exists |-> FALSE]
    /\ fileBefore' = FileState
    /\ exitCode' = 1
    /\ snippet' = FALSE
    /\ writes' = 0
    /\ reported' = "none"
    /\ UNCHANGED <<fileExists, fileThemes, pc, palette_files, idx, themes_data,
                   errlog>>
    /\ UNCHANGED callVars

\* main with a palette path: generate_theme
Generate(palette) ==
    /\ pc = "idle"
    /\ cmd' = "generate"
    /\ arg' = [exists |-> TRUE, palette |-> palette]
    /\ fileBefore' = FileState
    /\ LET o == generate_outcome(palette, load_existing_themes)
       IN /\ exitCode' = o.exit
          /\ snippet' = o.snippet
          /\ IF o.save
             THEN /\ fileExists' = TRUE
                  /\ fileThemes' = o.themes
                  /\ writes' = 1
             ELSE /\ UNCHANGED <<fileExists, fileThemes>>
                  /\ writes' = 0
    /\ reported' = "none"
    /\ UNCHANGED <<pc, palette_files, idx, themes_data, errlog>>
    /\ UNCHANGED callVars

\* main with --remove <name>: remove_theme
Remove(theme_name) ==
    /\ pc = "idle"
    /\ cmd' = "remove"
    /\ arg' = [theme_name |-> theme_name]
    /\ fileBefore' = FileState
    /\ LET before == load_existing_themes
           after == remove_filter(before, theme_name)
       IN IF remove_saves(before, after)
          THEN /\ fileExists' = TRUE
               /\ fileThemes' = after
               /\ writes' = 1
               /\ reported' = "removed"
          ELSE /\ UNCHANGED <<fileExists, fileThemes>>
               /\ writes' = 0
               /\ reported' = "notfound"
    /\ exitCode' = 0
    /\ snippet' = FALSE
    /\ UNCHANGED <<pc, palette_files, idx, themes_data, errlog>>
    /\ UNCHANGED callVars

\* main with --regenerate-all: regenerate_all_themes up to the for loop
RegenStart(dir_exists, dir) ==
    /\ pc = "idle"
    /\ cmd' = "regen"
    /\ arg' = [dir_exists |-> dir_exists, dir |-> dir]
    /\ fileBefore' = FileState
    /\ writes' = 0
    /\ snippet' = FALSE
    /\ reported' = "none"
    /\ errlog' = <<>>
    /\ idx' = 1
    /\ LET found == {f \in DOMAIN dir : f # TEMPLATE_FILE}
       IN IF ~dir_exists
          THEN /\ exitCode' = 1
               /\ UNCHANGED <<pc, palette_files, themes_data>>
          ELSE IF regen_returns_early(found)
          THEN /\ exitCode' = 0
               /\ palette_files' = <<>>
               /\ UNCHANGED <<pc, themes_data>>
          ELSE /\ exitCode' = 0
               /\ palette_files' = sorted(found)
               /\ themes_data' = regen_initial(load_existing_themes)
               /\ pc' = "regen_loop"
    /\ UNCHANGED <<fileExists, fileThemes>>
    /\ UNCHANGED callVars

\* one iteration of "for palette_file in sorted(palette_files)"
RegenProcess ==
    /\ pc = "regen_loop"
    /\ idx <= Len(palette_files)
    /\ LET fname == palette_files[idx]
           r == process_palette(themes_data, errlog, fname, arg.dir[fname])
       IN /\ themes_data' = r.themes
          /\ errlog' = r.log
    /\ idx' = idx + 1
    /\ UNCHANGED <<fileExists, fileThemes, pc, cmd, arg, palette_files, writes,
                   exitCode, snippet, reported, fileBefore>>
    /\ UNCHANGED callVars

\* "Save all themes" after the loop
RegenSave ==
    /\ pc = "regen_loop"
    /\ idx > Len(palette_files)
    /\ fileExists' = TRUE
    /\ fileThemes' = themes_data
    /\ writes' = writes + 1
    /\ pc' = "idle"
    /\ UNCHANGED <<cmd, arg, palette_files, idx, themes_data, errlog, exitCode,
                   snippet, reported, fileBefore>>
    /\ UNCHANGED callVars

\* the names a --remove can be given
RemovableNames == PaletteNames \cup {n \o BlurredSuffix : n \in PaletteNames}

Next ==
    \/ GenerateMissing
    \/ \E palette \in Palettes : Generate(palette)
    \/ \E theme_name \in RemovableNames : Remove(theme_name)
    \/ \E dir \in Directories : RegenStart(TRUE, dir)
    \/ RegenStart(FALSE, <<>>)
    \/ RegenProcess
    \/ RegenSave

Spec == Init /\ [][Next]_vars

-----------------------------------------------------------------------------
(* The persisted collection under the commands: claims C1, C3, C4, C5, C6 *)

\* the themes of a file state
ThemesOf(f) == IF f.exists THEN f.themes ELSE <<>>

RegenFinished == cmd = "regen" /\ pc = "idle" /\ arg.dir_exists /\ exitCode = 0

\* the palette files of the scanned directory, the template excluded
Found == {f \in DOMAIN arg.dir : f # TEMPLATE_FILE}
GoodFound == {f \in Found : arg.dir[f].fault = "none"}

\* C1: no two entries of the persisted collection's themes list share the
\* same name, after any sequence of generate, remove and regenerate-all runs
\* from an absent collection file.
C1_UniqueNames ==
    \A i, j \in DOMAIN fileThemes :
        i # j => fileThemes[i].name # fileThemes[j].name

\* the position entry i of the old list has in the new one, counting the
\* entries kept up to i
KeptUpTo(before, n, i) ==
    Cardinality({j \in 1..i : before[j].name # n})

\* C3: remove_theme removes every entry of the given name, keeps the others
\* in their relative order, reports success exactly when an entry was
\* removed, and when none has that name leaves the persisted collection as
\* it was, reports not-found and still exits normally.
C3_RemoveByName ==
    (cmd = "remove") =>
        LET n == arg.theme_name
            before == ThemesOf(fileBefore)
            had == \E i \in DOMAIN before : before[i].name = n
        IN /\ exitCode = 0
           /\ (reported = "removed") <=> had
           /\ (reported = "notfound") <=> ~had
           /\ had =>
                /\ fileExists
                /\ \A i \in DOMAIN fileThemes : fileThemes[i].name # n
                /\ Len(fileThemes) = KeptUpTo(before, n, Len(before))
                /\ \A i \in DOMAIN before :
                      before[i].name # n =>
                          fileThemes[KeptUpTo(before, n, i)] = before[i]
           /\ ~had => FileState = fileBefore /\ writes = 0

\* C3 witness: a removal that deleted two entries of the same name and kept
\* two others
C3_Witness ==
    /\ cmd = "remove"
    /\ reported = "removed"
    /\ Len(ThemesOf(fileBefore)) = Len(fileThemes) + 2
    /\ Len(fileThemes) = 2

\* the themes a run of regenerate-all generates from the directory it scanned
RunGenerated ==
    UNION {{RenderTheme(arg.dir[f]), BlurredValue(RenderTheme(arg.dir[f]))} :
           f \in GoodFound}

\* C4 as stated: whenever a regenerate-all run completes with the palette
\* directory present, for every set of palette files including the empty
\* one, the file was written exactly once and holds only themes generated in
\* this run.
C4_RebuiltForEverySet ==
    RegenFinished =>
        /\ writes = 1
        /\ fileExists
        /\ \A i \in DOMAIN fileThemes : fileThemes[i] \in RunGenerated

\* C4 amended: a regenerate-all run that found at least one palette file
\* writes the file exactly once, after the loop, and the file then holds
\* only themes generated in this run, two per palette that did not fail; a
\* run that found none writes nothing and leaves the file as it was.
C4_RebuiltWhenFound ==
    /\ (pc = "regen_loop") => writes = 0 /\ FileState = fileBefore
    /\ (RegenFinished /\ Found # {}) =>
          /\ writes = 1
          /\ fileExists
          /\ Len(fileThemes) = 2 * Cardinality(GoodFound)
          /\ \A i \in DOMAIN fileThemes : fileThemes[i] \in RunGenerated
    /\ (RegenFinished /\ Found = {}) => writes = 0 /\ FileState = fileBefore

\* C4 witness: a finished run over a non-empty directory that dropped an
\* entry of the prior file
C4_Witness ==
    /\ RegenFinished
    /\ Found # {}
    /\ writes = 1
    /\ fileThemes # <<>>
    /\ \E i \in DOMAIN ThemesOf(fileBefore) :
          \A j \in DOMAIN fileThemes :
              fileThemes[j].name # ThemesOf(fileBefore)[i].name

\* the number of entries the first k processed files contributed
EntriesOfFirst(k) ==
    2 * Cardinality({j \in 1..k : arg.dir[palette_files[j]].fault = "none"})

\* the number of failures the first k processed files reported
ErrorsOfFirst(k) ==
    Cardinality({j \in 1..k : arg.dir[palette_files[j]].fault # "none"})

\* C5: regenerate-all processes the palette files in sorted file-name
\* order; a palette that fails at any stage is reported with its file name,
\* contributes no entry and does not stop the run; every other palette
\* contributes its opaque theme immediately followed by its blurred variant.
C5_SkipAndContinue ==
    (cmd = "regen" /\ arg.dir_exists /\ exitCode = 0 /\ Found # {}) =>
        /\ {palette_files[j] : j \in DOMAIN palette_files} = Found
        /\ \A j, k \in DOMAIN palette_files :
              j < k => Rank(palette_files[j]) < Rank(palette_files[k])
        /\ Len(themes_data) = EntriesOfFirst(idx - 1)
        /\ Len(errlog) = ErrorsOfFirst(idx - 1)
        /\ \A k \in 1..(idx - 1) :
              LET f == palette_files[k]
                  p == arg.dir[f]
              IN IF p.fault = "none"
                 THEN LET at == EntriesOfFirst(k) - 1
                      IN /\ themes_data[at].name = p.name
                         /\ themes_data[at].style["background.appearance"].v # BLURRED
                         /\ themes_data[at + 1].name = p.name \o BlurredSuffix
                         /\ themes_data[at + 1] = BlurredValue(themes_data[at])
                 ELSE errlog[ErrorsOfFirst(k)] = f
        /\ (pc = "idle") =>
              /\ idx = Len(palette_files) + 1
              /\ fileThemes = themes_data

\* C5 witness: a finished run in which the first file failed at blur
\* derivation and the second contributed its two themes
C5_Witness ==
    /\ RegenFinished
    /\ Len(palette_files) = 2
    /\ arg.dir[palette_files[1]].fault = "blur"
    /\ arg.dir[palette_files[2]].fault = "none"
    /\ errlog = <<palette_files[1]>>
    /\ Len(fileThemes) = 2

\* C6: a single-palette generate whose palette file or rendered template
\* fails to parse exits non-zero, prints a snippet of the malformed text and
\* leaves the persisted collection unchanged.
C6_FailsClosed ==
    (cmd = "generate" /\ arg.exists /\ arg.palette.fault \in {"load", "parse"}) =>
        /\ exitCode # 0
        /\ snippet
        /\ writes = 0
        /\ FileState = fileBefore

-----------------------------------------------------------------------------
(* add_or_update_theme as a function of its two arguments: claim C2 *)

TestThemes == [name : {<<"A">>, <<"B">>}, appearance : {"dark", "light"}]

InitUpsert ==
    /\ StoreInit
    /\ ret = <<>>
    /\ args \in [fn : {"add_or_update_theme"},
                 themes : SeqUpTo(MaxThemes, TestThemes),
                 new_theme : TestThemes]

CallAddOrUpdateTheme ==
    /\ args.fn = "add_or_update_theme"
    /\ ret = <<>>
    /\ ret' = <<add_or_update_theme(args.themes, args.new_theme)>>
    /\ UNCHANGED args
    /\ UNCHANGED storeVars

NextUpsert == CallAddOrUpdateTheme

SpecUpsert == InitUpsert /\ [][NextUpsert]_vars

\* C2: if some entry has the new theme's name the result has as many
\* entries, the first such entry is replaced by the new theme and every
\* other entry keeps its value and position; otherwise the result is the
\* old list with the new theme appended last.
C2_Upsert ==
    (args.fn = "add_or_update_theme" /\ ret # <<>>) =>
        LET old == args.themes
            T == args.new_theme
            new == ret[1]
            N == Len(old)
            matches == {i \in 1..N : old[i].name = T.name}
        IN IF matches # {}
           THEN LET k == CHOOSE i \in matches : \A j \in matches : i <= j
                IN /\ Len(new) = N
                   /\ new[k] = T
                   /\ \A j \in 1..N : j # k => new[j] = old[j]
           ELSE /\ Len(new) = N + 1
                /\ \A j \in 1..N : new[j] = old[j]
                /\ new[N + 1] = T

\* C2 witness: an update of a list holding the name twice, with a different
\* theme, of which only the first entry was replaced
C2_Witness ==
    /\ args.fn = "add_or_update_theme"
    /\ ret # <<>>
    /\ Len(args.themes) = 3
    /\ args.themes[2].name = args.new_theme.name
    /\ args.themes[3].name = args.new_theme.name
    /\ args.themes[1].name # args.new_theme.name
    /\ args.themes[3] # args.new_theme
    /\ ret[1][2] = args.new_theme
    /\ ret[1][3] = args.themes[3]

-----------------------------------------------------------------------------
(* add_alpha_to_color as a function of its two arguments: claim C9 *)

ColorAlphabet == {"#", "F"}
ColorValues ==
    {Str(s) : s \in SeqUpTo(MaxColorLen, ColorAlphabet)} \cup {None, Num(<<"7">>)}
AlphaLevels == (DOMAIN BLUR_ALPHA) \cup {"unlisted"}

InitAlpha ==
    /\ StoreInit
    /\ ret = <<>>
    /\ args \in [fn : {"add_alpha_to_color"}, color : ColorValues,
                 alpha_level : AlphaLevels]

\* add_alpha_to_color on the color, then on its own result
CallAddAlphaToColor ==
    /\ args.fn = "add_alpha_to_color"
    /\ Len(ret) < 2
    /\ ret' = Append(ret,
                     add_alpha_to_color(IF ret = <<>> THEN args.color
                                        ELSE ret[Len(ret)],
                                        args.alpha_level))
    /\ UNCHANGED args
    /\ UNCHANGED storeVars

NextAlpha == CallAddAlphaToColor

SpecAlpha == InitAlpha /\ [][NextAlpha]_vars

\* a string value that starts with "#"
IsHashString(c) == c.t = "str" /\ c.v # <<>> /\ c.v[1] = "#"

\* C9: for a string starting with "#" of at least 7 characters and a level
\* of the table the result has 9 characters, the first 7 of the input
\* followed by the level's code, and a second application with the same
\* level returns the same result; a value that is missing, not a string or
\* not "#"-prefixed is returned unchanged.
C9_AddAlpha ==
    (args.fn = "add_alpha_to_color" /\ ret # <<>>
        /\ args.alpha_level \in DOMAIN BLUR_ALPHA) =>
        LET c == args.color
            r == ret[1]
        IN /\ (IsHashString(c) /\ Len(c.v) >= 7) =>
                 /\ r.t = "str"
                 /\ Len(r.v) = 9
                 /\ \A i \in 1..7 : r.v[i] = c.v[i]
                 /\ <<r.v[8], r.v[9]>> = BLUR_ALPHA[args.alpha_level]
                 /\ Len(ret) = 2 => ret[2] = r
           /\ ~IsHashString(c) => r = c

\* C9 witness: the function applied twice to a "#RRGGBBAA" value
C9_Witness ==
    /\ args.fn = "add_alpha_to_color"
    /\ Len(ret) = 2
    /\ IsHashString(args.color)
    /\ Len(args.color.v) = 9
    /\ args.alpha_level = "subtle"
    /\ ret[1] # args.color

-----------------------------------------------------------------------------
(* create_blurred_variant as a function of a theme object: claim C10 *)

BlurStyleKeys == {"background", "editor.background", "border", "text",
                  "background.appearance"}
BlurStyleValues == {Str(COLOR1), Str(COLOR2), Str(<<"r", "e", "d">>), Num(<<"1">>)}
Styles == UNION {[D -> BlurStyleValues] : D \in SUBSET BlurStyleKeys}

InitBlur ==
    /\ StoreInit
    /\ ret = <<>>
    /\ args \in [fn : {"create_blurred_variant"},
                 heap : {<<s>> : s \in Styles},
                 theme : [name : PaletteNames, appearance : {"dark", "light"},
                          style : {1}]]

CallCreateBlurredVariant ==
    /\ args.fn = "create_blurred_variant"
    /\ ret = <<>>
    /\ ret' = <<create_blurred_variant(args.heap, args.theme)>>
    /\ UNCHANGED args
    /\ UNCHANGED storeVars

NextBlur == CallCreateBlurredVariant

SpecBlur == InitBlur /\ [][NextBlur]_vars

\* C10: the input theme is left unchanged and shares no dictionary with the
\* result; the result differs from it only in name ("<name> - blurred"), in
\* style["background.appearance"] ("blurred") and in the blur-table keys
\* present in the input's style, each rewritten by add_alpha_to_color with
\* the key's level; absent blur-table keys are not added.
C10_BlurFootprint ==
    (args.fn = "create_blurred_variant" /\ ret # <<>>) =>
        LET input == ThemeValue(args.heap, args.theme)
            after == ThemeValue(ret[1].heap, args.theme)
            out == ThemeValue(ret[1].heap, ret[1].blurred)
        IN /\ after = input
           /\ ret[1].blurred.style # args.theme.style
           /\ out.name = input.name \o <<" - blurred">>
           /\ out.appearance = input.appearance
           /\ DOMAIN out.style = (DOMAIN input.style) \cup {"background.appearance"}
           /\ out.style["background.appearance"] = Str(BLURRED)
           /\ \A k \in (DOMAIN input.style) \ {"background.appearance"} :
                 out.style[k] = IF k \in DOMAIN BLUR_KEYS
                                THEN add_alpha_to_color(input.style[k], BLUR_KEYS[k])
                                ELSE input.style[k]

\* C10 witness: a theme with a blur-table key present, another absent and a
\* key outside the table, blurred
C10_Witness ==
    /\ args.fn = "create_blurred_variant"
    /\ ret # <<>>
    /\ DOMAIN args.heap[1] = {"border", "text", "background.appearance"}
    /\ args.heap[1]["border"] = Str(COLOR2)
    /\ ret[1].heap[ret[1].blurred.style]["border"] # Str(COLOR2)

-----------------------------------------------------------------------------
(* The relaxed-JSON preprocessor: comment stripping (claim C7) *)

Whitespace == {" ", "\n", "\t", "\r"}

\* content.split("\n") from position i on, cur being the line under way
RECURSIVE split_from(_, _, _)
split_from(text, i, cur) ==
    IF i > Len(text) THEN <<cur>>
    ELSE IF text[i] = "\n" THEN <<cur>> \o split_from(text, i + 1, <<>>)
         ELSE split_from(text, i + 1, Append(cur, text[i]))

split_lines(text) == split_from(text, 1, <<>>)

\* "\n".join(lines)
RECURSIVE join_lines(_)
join_lines(lines) ==
    IF lines = <<>> THEN <<>>
    ELSE IF Len(lines) = 1 THEN lines[1]
         ELSE lines[1] \o <<"\n">> \o join_lines(Tail(lines))

\* str.rstrip()
RECURSIVE rstrip(_)
rstrip(s) ==
    IF s # <<>> /\ s[Len(s)] \in Whitespace THEN rstrip(SubSeq(s, 1, Len(s) - 1))
    ELSE s

\* line.strip() is non-empty
is_nonblank(line) == \E i \in DOMAIN line : line[i] \notin Whitespace

\* the scanner "for i, char in enumerate(line)" from position i on (positions
\* count from 1); the result is comment_pos + 1, and 0 when comment_pos = -1
RECURSIVE comment_scan(_, _, _, _)
comment_scan(line, i, in_string, escape_next) ==
    IF i > Len(line) THEN 0
    ELSE IF escape_next THEN comment_scan(line, i + 1, in_string, FALSE)
    ELSE IF line[i] = "\\" THEN comment_scan(line, i + 1, in_string, TRUE)
    ELSE LET in_string2 == IF line[i] = "\"" /\ ~escape_next
                           THEN ~in_string ELSE in_string
         IN IF ~in_string2 /\ i < Len(line) /\ line[i] = "/" /\ line[i + 1] = "/"
            THEN i
            ELSE comment_scan(line, i + 1, in_string2, FALSE)

\* one iteration of the loop over the lines: the state starts afresh
strip_line(line) ==
    LET comment_pos == comment_scan(line, 1, FALSE, FALSE)
    IN IF comment_pos > 0 THEN rstrip(SubSeq(line, 1, comment_pos - 1))
       ELSE line

\* load_palette up to json_str = "\n".join(lines)
load_palette_lines(content) ==
    LET lines == split_lines(content)
    IN join_lines([k \in DOMAIN lines |-> strip_line(lines[k])])

\* parse_theme_json up to json_str = "\n".join(lines): blank lines are dropped
parse_theme_lines(theme_str) ==
    LET lines == split_lines(theme_str)
    IN join_lines(SelectSeq([k \in DOMAIN lines |-> strip_line(lines[k])],
                            is_nonblank))

StripAlphabet == {"/", "\"", "\\", "a", " ", "\n"}

InitStrip ==
    /\ StoreInit
    /\ ret = <<>>
    /\ args \in [fn : {"strip_comments"},
                 text : SeqUpTo(MaxLineLen, StripAlphabet)]

CallLoadPalette ==
    /\ args.fn = "strip_comments"
    /\ ret = <<>>
    /\ ret' = <<[by |-> "load_palette", text |-> load_palette_lines(args.text)]>>
    /\ UNCHANGED args
    /\ UNCHANGED storeVars

CallParseThemeJson ==
    /\ args.fn = "strip_comments"
    /\ ret = <<>>
    /\ ret' = <<[by |-> "parse_theme_json", text |-> parse_theme_lines(args.text)]>>
    /\ UNCHANGED args
    /\ UNCHANGED storeVars

NextStrip == CallLoadPalette \/ CallParseThemeJson

SpecStrip == InitStrip /\ [][NextStrip]_vars

\* the character at position j is escaped: it follows a backslash that is
\* not itself escaped
RECURSIVE IsEscaped(_, _)
IsEscaped(line, j) ==
    j > 1 /\ line[j - 1] = "\\" /\ ~IsEscaped(line, j - 1)

\* position i lies inside a string literal: an odd number of unescaped
\* quotes precede it
InsideString(line, i) ==
    Cardinality({j \in 1..(i - 1) : line[j] = "\"" /\ ~IsEscaped(line, j)}) % 2 = 1

\* the positions of a "//" outside any string literal
CommentStarts(line) ==
    {i \in 1..(Len(line) - 1) :
        line[i] = "/" /\ line[i + 1] = "/" /\ ~InsideString(line, i)}

\* the line as the claim describes its stripping
StrippedAsClaimed(line) ==
    IF CommentStarts(line) = {} THEN line
    ELSE LET p == CHOOSE i \in CommentStarts(line) :
                      \A j \in CommentStarts(line) : i <= j
         IN rstrip(SubSeq(line, 1, p - 1))

\* C7: every line is truncated at the first "//" outside a string literal,
\* trailing whitespace trimmed, and left unmodified if there is none; an
\* escaped quote never toggles the in-string state and the state is reset
\* at the start of every line.
C7_CommentStripping ==
    (args.fn = "strip_comments" /\ ret # <<>>) =>
        LET lines == split_lines(args.text)
            claimed == [k \in DOMAIN lines |-> StrippedAsClaimed(lines[k])]
        IN ret[1].text = IF ret[1].by = "load_palette"
                         THEN join_lines(claimed)
                         ELSE join_lines(SelectSeq(claimed, is_nonblank))

-----------------------------------------------------------------------------
(* The relaxed-JSON preprocessor: trailing commas (claim C8) *)

\* the first position from j on that holds no whitespace: the end of \s*
RECURSIVE skip_whitespace(_, _)
skip_whitespace(text, j) ==
    IF j <= Len(text) /\ text[j] \in Whitespace THEN skip_whitespace(text, j + 1)
    ELSE j

\* re.sub(r",\s*([}\]])", r"\1", json_str) from position i on
RECURSIVE re_sub_from(_, _)
re_sub_from(text, i) ==
    IF i > Len(text) THEN <<>>
    ELSE LET j == skip_whitespace(text, i + 1)
         IN IF text[i] = "," /\ j <= Len(text) /\ text[j] \in {"}", "]"}
            THEN <<text[j]>> \o re_sub_from(text, j + 1)
            ELSE <<text[i]>> \o re_sub_from(text, i + 1)

remove_trailing_commas(json_str) == re_sub_from(json_str, 1)

CommaAlphabet == {",", " ", "\n", "}", "]", "\"", "1"}

InitComma ==
    /\ StoreInit
    /\ ret = <<>>
    /\ args \in [fn : {"remove_trailing_commas"},
                 text : SeqUpTo(MaxTextLen, CommaAlphabet)]

CallRemoveTrailingCommas ==
    /\ args.fn = "remove_trailing_commas"
    /\ ret = <<>>
    /\ ret' = <<remove_trailing_commas(args.text)>>
    /\ UNCHANGED args
    /\ UNCHANGED storeVars

NextComma == CallRemoveTrailingCommas

SpecComma == InitComma /\ [][NextComma]_vars

\* the text with the trailing commas of the JSON structure removed: a comma
\* outside any string literal that only whitespace separates from a "}" or
\* "]" goes, with that whitespace, and every other character stays
RECURSIVE StructuralCommasRemoved(_, _, _)
StructuralCommasRemoved(text, i, in_string) ==
    IF i > Len(text) THEN <<>>
    ELSE IF text[i] = "\""
    THEN <<text[i]>> \o StructuralCommasRemoved(text, i + 1, ~in_string)
    ELSE LET j == skip_whitespace(text, i + 1)
         IN IF ~in_string /\ text[i] = "," /\ j <= Len(text)
                /\ text[j] \in {"}", "]"}
            THEN <<text[j]>> \o StructuralCommasRemoved(text, j + 1, in_string)
            ELSE <<text[i]>> \o StructuralCommasRemoved(text, i + 1, in_string)

\* C8: the rewrite deletes every comma that only whitespace separates from a
\* following "}" or "]", with that whitespace, and changes no other
\* character of the text, in particular none inside a string literal.
C8_TrailingCommas ==
    (args.fn = "remove_trailing_commas" /\ ret # <<>>) =>
        ret[1] = StructuralCommasRemoved(args.text, 1, FALSE)

=============================================================================
